---- MODULE Spec2Model ----
(***************************************************************************)
(* Construction functors of sage.modular.hecke_mf (functors.py):           *)
(* get_base_ring, ConstantFormsSpaceFunctor, FormsSubSpaceFunctor,         *)
(* FormsSpaceFunctor, FormsRingFunctor and BaseFacade.                     *)
(*                                                                         *)
(* A state is an interpreter session: two names F and G bound to functor   *)
(* objects (or unbound), and `last`, the record of the last call made with *)
(* its operands and its result.  Every object carries an `id`, its Python  *)
(* identity; __eq__ never looks at it, `is` looks at nothing else.         *)
(* `cache` is the instance cache of the class BaseFacade and `stack` the   *)
(* frames of the __call__ in progress.                                     *)
(***************************************************************************)
EXTENDS Integers, Sequences, FiniteSets, TLC

VARIABLES reg, last, cache, stack

vars == <<reg, last, cache, stack>>

(***************************************************************************)
(* Bounds of the model.                                                    *)
(***************************************************************************)
MaxGroup == 4

MaxBasisLen == 1

MaxDepth == 3

MaxFacades == 2

\* the deepest nesting of __call__ the model follows
MaxFrames == 3

Slots == {1, 2}

Groups == 3..MaxGroup

Weights == {0, 12}

Multipliers == {1, -1}

BasisElements == {"e0", "e1"}

VarNames == {"d", "x"}

BaseRings == {<<"ZZ">>, <<"CC">>}

(***************************************************************************)
(* Rings.  A ring is the sequence of its constructions, outermost first:   *)
(* "Frac" is FractionField, a variable name is PolynomialRing(., name),    *)
(* and the last entry is ZZ or CC; QQ is <<"Frac", "ZZ">>.  The fraction   *)
(* field of a field is that field, so "Frac" never sits on "Frac" or CC.   *)
(***************************************************************************)
IsField(ring) == Head(ring) \in {"Frac", "CC"}

RECURSIVE RingsUpTo(_)
RingsUpTo(n) ==
    IF n = 0 THEN BaseRings
    ELSE LET S == RingsUpTo(n - 1)
         IN  S \cup {<<v>> \o r : v \in VarNames, r \in S}
               \cup {<<"Frac">> \o r : r \in {q \in S : ~IsField(q)}}

Rings == RingsUpTo(MaxDepth)

\* ring.construction() and ring.construction()[0] == FractionFieldFunctor()
IsFractionFieldConstruction(ring) == Head(ring) = "Frac"

\* is_PolynomialRing(ring) and ring.ngens()==1 and ring.variable_name()==var_name
IsPolynomialRingIn(ring, var_name) == Head(ring) = var_name /\ Head(ring) \in VarNames

get_base_ring(ring, var_name) ==
    LET r1 == IF IsFractionFieldConstruction(ring) THEN Tail(ring) ELSE ring
        r2 == IF IsPolynomialRingIn(r1, var_name) THEN Tail(r1) ELSE r1
        r3 == IF IsFractionFieldConstruction(r2) THEN Tail(r2) ELSE r2
    IN  r3

\* the default of the var_name parameter
DefaultVarName == "d"

(***************************************************************************)
(* Analytic types: sets of the basic properties closed under               *)
(* mero => weak => holo => cusp; the join is the union.                    *)
(***************************************************************************)
ATImplied(p) ==
    CASE p = "mero" -> {"mero", "weak", "holo", "cusp"}
      [] p = "weak" -> {"weak", "holo", "cusp"}
      [] p = "holo" -> {"holo", "cusp"}
      [] OTHER      -> {p}

AT(names) == UNION {ATImplied(p) : p \in names}

ATJoin(t1, t2) == AT(t1 \cup t2)

\* the analytic types handed to the constructors
TypeInputs == {{"holo"}, {"quasi", "cusp"}}

(***************************************************************************)
(* Values.                                                                 *)
(***************************************************************************)
NoneVal == [kind |-> "None"]

ExceptionVal == [kind |-> "Exception"]

Bases == UNION {[1..n -> BasisElements] : n \in 0..MaxBasisLen}

(***************************************************************************)
(* Functor objects.  `id` is the identity of the object.                   *)
(***************************************************************************)
\* FormsSpaceFunctor.__init__
FormsSpaceFunctor(id, analytic_type, group, k, ep) ==
    [id |-> id, kind |-> "Space", at |-> AT(analytic_type),
     group |-> group, k |-> k, ep |-> ep]

\* FormsRingFunctor.__init__
FormsRingFunctor(id, analytic_type, group, red_hom) ==
    [id |-> id, kind |-> "Ring", at |-> AT(analytic_type),
     group |-> group, red_hom |-> red_hom]

\* FormsSubSpaceFunctor.__init__ without the isinstance test
FormsSubSpaceFunctor_NoCheck(id, ambient_space_functor, basis) ==
    [id |-> id, kind |-> "SubSpace",
     amb |-> ambient_space_functor, basis |-> basis]

\* FormsSubSpaceFunctor.__init__: raises unless the ambient functor is a
\* FormsSpaceFunctor
FormsSubSpaceFunctor(id, ambient_space_functor, basis) ==
    IF ambient_space_functor.kind # "Space"
    THEN ExceptionVal
    ELSE [id |-> id, kind |-> "SubSpace",
          amb |-> ambient_space_functor, basis |-> basis]

\* the constant forms functor of the Hecke triangle group n = 3, whatever the group
ConstantFormsSpaceFunctor_GroupThree(id, group) ==
    FormsSpaceFunctor(id, {"holo"}, 3, 0, 1)

ConstantFormsSpaceFunctor(id, group) ==
    FormsSpaceFunctor(id, {"holo"}, group, 0, 1)

\* FormsSpaceFunctor.__eq__
SpaceEq(self, other) ==
    /\ other.kind = "Space"
    /\ self.group = other.group
    /\ self.at = other.at
    /\ self.k = other.k
    /\ self.ep = other.ep

\* FormsRingFunctor.__eq__
RingEq(self, other) ==
    /\ other.kind = "Ring"
    /\ self.group = other.group
    /\ self.at = other.at
    /\ self.red_hom = other.red_hom

\* FormsSubSpaceFunctor.__eq__
SubSpaceEq(self, other) ==
    /\ other.kind = "SubSpace"
    /\ SpaceEq(self.amb, other.amb)
    /\ self.basis = other.basis

\* self == other, dispatched on the class of self
Eq(self, other) ==
    CASE self.kind = "Space"    -> SpaceEq(self, other)
      [] self.kind = "Ring"     -> RingEq(self, other)
      [] self.kind = "SubSpace" -> SubSpaceEq(self, other)
      [] OTHER                  -> self.kind = other.kind

(***************************************************************************)
(* merge.  f is the sequence of identities the constructors called by the  *)
(* merge hand out, in call order.                                          *)
(***************************************************************************)
\* FormsSpaceFunctor.merge without the group test against a FormsSpaceFunctor
SpaceMerge_NoGroupCheck(self, other, f) ==
    IF SpaceEq(self, other) THEN self
    ELSE LET o == IF other.kind = "SubSpace" THEN other.amb ELSE other
         IN  CASE o.kind = "Space" ->
                    IF FALSE THEN NoneVal
                    ELSE LET analytic_type == ATJoin(self.at, o.at)
                         IN  IF self.k = o.k /\ self.ep = o.ep
                             THEN FormsSpaceFunctor(f[1], analytic_type, self.group, self.k, self.ep)
                             ELSE FormsRingFunctor(f[1], analytic_type, self.group, TRUE)
               [] o.kind = "Ring" ->
                    IF ~(self.group = o.group) THEN NoneVal
                    ELSE LET red_hom == o.red_hom
                             analytic_type == ATJoin(self.at, o.at)
                         IN  FormsRingFunctor(f[1], analytic_type, self.group, red_hom)
               [] OTHER -> NoneVal

\* FormsSpaceFunctor.merge keeping the analytic type of self
SpaceMerge_NoJoin(self, other, f) ==
    IF SpaceEq(self, other) THEN self
    ELSE LET o == IF other.kind = "SubSpace" THEN other.amb ELSE other
         IN  CASE o.kind = "Space" ->
                    IF ~(self.group = o.group) THEN NoneVal
                    ELSE LET analytic_type == self.at
                         IN  IF self.k = o.k /\ self.ep = o.ep
                             THEN FormsSpaceFunctor(f[1], analytic_type, self.group, self.k, self.ep)
                             ELSE FormsRingFunctor(f[1], analytic_type, self.group, TRUE)
               [] o.kind = "Ring" ->
                    IF ~(self.group = o.group) THEN NoneVal
                    ELSE LET red_hom == o.red_hom
                             analytic_type == ATJoin(self.at, o.at)
                         IN  FormsRingFunctor(f[1], analytic_type, self.group, red_hom)
               [] OTHER -> NoneVal

\* FormsSpaceFunctor.merge comparing the weights only
SpaceMerge_WeightOnly(self, other, f) ==
    IF SpaceEq(self, other) THEN self
    ELSE LET o == IF other.kind = "SubSpace" THEN other.amb ELSE other
         IN  CASE o.kind = "Space" ->
                    IF ~(self.group = o.group) THEN NoneVal
                    ELSE LET analytic_type == ATJoin(self.at, o.at)
                         IN  IF self.k = o.k
                             THEN FormsSpaceFunctor(f[1], analytic_type, self.group, self.k, self.ep)
                             ELSE FormsRingFunctor(f[1], analytic_type, self.group, TRUE)
               [] o.kind = "Ring" ->
                    IF ~(self.group = o.group) THEN NoneVal
                    ELSE LET red_hom == o.red_hom
                             analytic_type == ATJoin(self.at, o.at)
                         IN  FormsRingFunctor(f[1], analytic_type, self.group, red_hom)
               [] OTHER -> NoneVal

\* FormsSpaceFunctor.merge
SpaceMerge(self, other, f) ==
    IF SpaceEq(self, other) THEN self
    ELSE LET o == IF other.kind = "SubSpace" THEN other.amb ELSE other
         IN  CASE o.kind = "Space" ->
                    IF ~(self.group = o.group) THEN NoneVal
                    ELSE LET analytic_type == ATJoin(self.at, o.at)
                         IN  IF self.k = o.k /\ self.ep = o.ep
                             THEN FormsSpaceFunctor(f[1], analytic_type, self.group, self.k, self.ep)
                             ELSE FormsRingFunctor(f[1], analytic_type, self.group, TRUE)
               [] o.kind = "Ring" ->
                    IF ~(self.group = o.group) THEN NoneVal
                    ELSE LET red_hom == o.red_hom
                             analytic_type == ATJoin(self.at, o.at)
                         IN  FormsRingFunctor(f[1], analytic_type, self.group, red_hom)
               [] OTHER -> NoneVal

\* FormsRingFunctor.merge with the logical or of the red_hom flags
RingMerge_Or(self, other, f) ==
    IF RingEq(self, other) THEN self
    ELSE LET o == IF other.kind = "SubSpace" THEN other.amb ELSE other
         IN  CASE o.kind = "Space" ->
                    IF ~(self.group = o.group) THEN NoneVal
                    ELSE LET red_hom == self.red_hom
                             analytic_type == ATJoin(self.at, o.at)
                         IN  FormsRingFunctor(f[1], analytic_type, self.group, red_hom)
               [] o.kind = "Ring" ->
                    IF ~(self.group = o.group) THEN NoneVal
                    ELSE LET red_hom == self.red_hom \/ o.red_hom
                             analytic_type == ATJoin(self.at, o.at)
                         IN  FormsRingFunctor(f[1], analytic_type, self.group, red_hom)
               [] OTHER -> NoneVal

\* FormsRingFunctor.merge taking the red_hom of the forms space
RingMerge_SpaceRedHom(self, other, f) ==
    IF RingEq(self, other) THEN self
    ELSE LET o == IF other.kind = "SubSpace" THEN other.amb ELSE other
         IN  CASE o.kind = "Space" ->
                    IF ~(self.group = o.group) THEN NoneVal
                    ELSE LET red_hom == TRUE
                             analytic_type == ATJoin(self.at, o.at)
                         IN  FormsRingFunctor(f[1], analytic_type, self.group, red_hom)
               [] o.kind = "Ring" ->
                    IF ~(self.group = o.group) THEN NoneVal
                    ELSE LET red_hom == self.red_hom /\ o.red_hom
                             analytic_type == ATJoin(self.at, o.at)
                         IN  FormsRingFunctor(f[1], analytic_type, self.group, red_hom)
               [] OTHER -> NoneVal

\* FormsRingFunctor.merge keeping its own red_hom against another ring functor
RingMerge_SelfRedHom(self, other, f) ==
    IF RingEq(self, other) THEN self
    ELSE LET o == IF other.kind = "SubSpace" THEN other.amb ELSE other
         IN  CASE o.kind = "Space" ->
                    IF ~(self.group = o.group) THEN NoneVal
                    ELSE LET red_hom == self.red_hom
                             analytic_type == ATJoin(self.at, o.at)
                         IN  FormsRingFunctor(f[1], analytic_type, self.group, red_hom)
               [] o.kind = "Ring" ->
                    IF ~(self.group = o.group) THEN NoneVal
                    ELSE LET red_hom == self.red_hom
                             analytic_type == ATJoin(self.at, o.at)
                         IN  FormsRingFunctor(f[1], analytic_type, self.group, red_hom)
               [] OTHER -> NoneVal

\* FormsRingFunctor.merge
RingMerge(self, other, f) ==
    IF RingEq(self, other) THEN self
    ELSE LET o == IF other.kind = "SubSpace" THEN other.amb ELSE other
         IN  CASE o.kind = "Space" ->
                    IF ~(self.group = o.group) THEN NoneVal
                    ELSE LET red_hom == self.red_hom
                             analytic_type == ATJoin(self.at, o.at)
                         IN  FormsRingFunctor(f[1], analytic_type, self.group, red_hom)
               [] o.kind = "Ring" ->
                    IF ~(self.group = o.group) THEN NoneVal
                    ELSE LET red_hom == self.red_hom /\ o.red_hom
                             analytic_type == ATJoin(self.at, o.at)
                         IN  FormsRingFunctor(f[1], analytic_type, self.group, red_hom)
               [] OTHER -> NoneVal

\* FormsSubSpaceFunctor.merge without the test self == other
SubSpaceMerge_NoShortCircuit(self, other, f) ==
    IF FALSE THEN self
    ELSE IF other.kind = "SubSpace"
    THEN LET merged_ambient_space_functor == SpaceMerge(self.amb, other.amb, f)
         IN  IF merged_ambient_space_functor.kind = "Space"
             THEN IF self.basis = other.basis
                  THEN FormsSubSpaceFunctor(f[2], merged_ambient_space_functor, self.basis)
                  ELSE merged_ambient_space_functor
             ELSE merged_ambient_space_functor
    ELSE SpaceMerge(self.amb, other, f)

\* FormsSubSpaceFunctor.merge always returning the merged ambient functor
SubSpaceMerge_DropBasis(self, other, f) ==
    IF SubSpaceEq(self, other) THEN self
    ELSE IF other.kind = "SubSpace"
    THEN LET merged_ambient_space_functor == SpaceMerge(self.amb, other.amb, f)
         IN  IF merged_ambient_space_functor.kind = "Space"
             THEN IF FALSE
                  THEN FormsSubSpaceFunctor(f[2], merged_ambient_space_functor, self.basis)
                  ELSE merged_ambient_space_functor
             ELSE merged_ambient_space_functor
    ELSE SpaceMerge(self.amb, other, f)

\* FormsSubSpaceFunctor.merge combining two different bases to a new basis
SubSpaceMerge_CombineBasis(self, other, f) ==
    IF SubSpaceEq(self, other) THEN self
    ELSE IF other.kind = "SubSpace"
    THEN LET merged_ambient_space_functor == SpaceMerge(self.amb, other.amb, f)
         IN  IF merged_ambient_space_functor.kind = "Space"
             THEN IF self.basis = other.basis
                  THEN FormsSubSpaceFunctor(f[2], merged_ambient_space_functor, self.basis)
                  ELSE FormsSubSpaceFunctor(f[2], merged_ambient_space_functor,
                                            self.basis \o other.basis)
             ELSE merged_ambient_space_functor
    ELSE SpaceMerge(self.amb, other, f)

\* FormsSubSpaceFunctor.merge
SubSpaceMerge(self, other, f) ==
    IF SubSpaceEq(self, other) THEN self
    ELSE IF other.kind = "SubSpace"
    THEN LET merged_ambient_space_functor == SpaceMerge(self.amb, other.amb, f)
         IN  IF merged_ambient_space_functor.kind = "Space"
             THEN IF self.basis = other.basis
                  THEN FormsSubSpaceFunctor(f[2], merged_ambient_space_functor, self.basis)
                  ELSE merged_ambient_space_functor
             ELSE merged_ambient_space_functor
    ELSE SpaceMerge(self.amb, other, f)

\* self.merge(other), dispatched on the class of self
Merge(self, other, f) ==
    CASE self.kind = "Space"    -> SpaceMerge(self, other, f)
      [] self.kind = "Ring"     -> RingMerge(self, other, f)
      [] self.kind = "SubSpace" -> SubSpaceMerge(self, other, f)
      [] OTHER                  -> ExceptionVal

(***************************************************************************)
(* Application of a functor to a ring or to a BaseFacade.                  *)
(***************************************************************************)
\* BaseFacade.__init__ storing the ring as it is given
BaseFacade_Raw(ring) ==
    [kind |-> "BaseFacade", arg |-> ring, _ring |-> ring]

\* BaseFacade.__init__
BaseFacade(ring) ==
    [kind |-> "BaseFacade", arg |-> ring,
     _ring |-> get_base_ring(ring, DefaultVarName)]

\* a ring handed to a functor as it is
PlainRing(ring) == [kind |-> "PlainRing", ring |-> ring]

\* the external constructors FormsSpace, FormsRing and SubSpaceForms
FormsSpace(analytic_type, group, base_ring, k, ep) ==
    [kind |-> "FormsSpace", at |-> analytic_type, group |-> group,
     base_ring |-> base_ring, k |-> k, ep |-> ep]

FormsRing(analytic_type, group, base_ring, red_hom) ==
    [kind |-> "FormsRing", at |-> analytic_type, group |-> group,
     base_ring |-> base_ring, red_hom |-> red_hom]

SubSpaceForms(ambient_space, basis) ==
    [kind |-> "SubSpaceForms", ambient_space |-> ambient_space, basis |-> basis]

RECURSIVE SpaceCall(_, _, _)
RECURSIVE RingCall(_, _, _)
RECURSIVE Call(_, _, _)

\* FormsSpaceFunctor.__call__ without the merge with the constant functor
SpaceCall_NoConstant(self, R, f) ==
    IF R.kind = "BaseFacade"
    THEN FormsSpace(self.at, self.group,
                    get_base_ring(R._ring, DefaultVarName), self.k, self.ep)
    ELSE LET R2 == BaseFacade(get_base_ring(R.ring, DefaultVarName))
             merged_functor ==
                 self
         IN  Call(merged_functor, R2, Tail(Tail(f)))

\* FormsSpaceFunctor.__call__
SpaceCall(self, R, f) ==
    IF R.kind = "BaseFacade"
    THEN FormsSpace(self.at, self.group,
                    get_base_ring(R._ring, DefaultVarName), self.k, self.ep)
    ELSE LET R2 == BaseFacade(get_base_ring(R.ring, DefaultVarName))
             merged_functor ==
                 SpaceMerge(self, ConstantFormsSpaceFunctor(f[1], self.group), Tail(f))
         IN  Call(merged_functor, R2, Tail(Tail(f)))

\* FormsRingFunctor.__call__
RingCall(self, R, f) ==
    IF R.kind = "BaseFacade"
    THEN FormsRing(self.at, self.group,
                   get_base_ring(R._ring, DefaultVarName), self.red_hom)
    ELSE LET R2 == BaseFacade(get_base_ring(R.ring, DefaultVarName))
             merged_functor ==
                 RingMerge(self, ConstantFormsSpaceFunctor(f[1], self.group), Tail(f))
         IN  Call(merged_functor, R2, Tail(Tail(f)))

\* FormsSubSpaceFunctor.__call__ without the isinstance test
SubSpaceCall_AlwaysSub(self, R, f) ==
    LET ambient_space == SpaceCall(self.amb, R, f)
    IN  IF TRUE
        THEN SubSpaceForms(ambient_space, self.basis)
        ELSE ambient_space

\* FormsSubSpaceFunctor.__call__
SubSpaceCall(self, R, f) ==
    LET ambient_space == SpaceCall(self.amb, R, f)
    IN  IF ambient_space.kind = "FormsSpace"
        THEN SubSpaceForms(ambient_space, self.basis)
        ELSE ambient_space

\* F(R), dispatched on the class of F; calling None raises
Call(F, R, f) ==
    CASE F.kind = "Space"    -> SpaceCall(F, R, f)
      [] F.kind = "Ring"     -> RingCall(F, R, f)
      [] F.kind = "SubSpace" -> SubSpaceCall(F, R, f)
      [] OTHER               -> ExceptionVal

(***************************************************************************)
(* The session.                                                            *)
(***************************************************************************)
IsFunctor(o) == o.kind \in {"Space", "Ring", "SubSpace"}

\* the identities of an object and of the objects it refers to
IdsOf(o) ==
    CASE o.kind = "SubSpace"        -> {o.id, o.amb.id}
      [] o.kind \in {"Space", "Ring"} -> {o.id}
      [] OTHER                      -> {}

LiveIds(S) == UNION {IdsOf(reg[s]) : s \in S}

\* four identities no live object has, smallest first
FreshIds(live) ==
    LET U == (1..(Cardinality(live) + 4)) \ live
    IN  [i \in 1..4 |-> CHOOSE x \in U : Cardinality({y \in U : y < x}) = i - 1]

\* The session up to the naming of identities: every object is renamed to
\* the first place it is met at, going through slot 1, its ambient functor,
\* slot 2, its ambient functor.
IdAt(r, p) ==
    LET o == r[(p + 1) \div 2]
    IN  IF p % 2 = 1
        THEN (IF IsFunctor(o) THEN o.id ELSE 0)
        ELSE (IF o.kind = "SubSpace" THEN o.amb.id ELSE 0)

\* the object o of the session r under that renaming
Renamed(r, o) ==
    LET pos(id) == CHOOSE p \in 1..4 :
                       IdAt(r, p) = id /\ \A q \in 1..(p - 1) : IdAt(r, q) # id
    IN  CASE o.kind = "SubSpace" ->
               [o EXCEPT !.id = pos(o.id),
                         !.amb = [o.amb EXCEPT !.id = pos(o.amb.id)]]
          [] o.kind \in {"Space", "Ring"} -> [o EXCEPT !.id = pos(o.id)]
          [] OTHER -> o

Canon(r) == [s \in Slots |-> Renamed(r, r[s])]

NoArg == [kind |-> "NoArg"]

Record(op, self, other, arg, var, res) ==
    [op |-> op, self |-> self, other |-> other, arg |-> arg, var |-> var, res |-> res]

\* the basis handed to FormsSubSpaceFunctor
BasisArg(basis) == [kind |-> "Basis", basis |-> basis]

\* no BaseFacade constructed yet
EmptyCache == [ring \in {} |-> NoneVal]

Init ==
    /\ reg = [s \in Slots |-> NoneVal]
    /\ last = Record("init", NoneVal, NoneVal, NoArg, "", NoneVal)
    /\ cache = EmptyCache
    /\ stack = <<>>

\* s = FormsSpaceFunctor(t, g, k, ep)
NewSpaceIn(S) ==
    \E s \in S, t \in TypeInputs, g \in Groups, k \in Weights, ep \in Multipliers :
        LET o == FormsSpaceFunctor(FreshIds(LiveIds(Slots \ {s}))[1], t, g, k, ep)
            r == Canon([reg EXCEPT ![s] = o])
        IN  /\ reg' = r
            /\ last' = Record("FormsSpaceFunctor", NoneVal, NoneVal, NoArg, "", r[s])
            /\ UNCHANGED <<cache, stack>>

\* s = FormsRingFunctor(t, g, red_hom)
NewRingIn(S) ==
    \E s \in S, t \in TypeInputs, g \in Groups, red_hom \in BOOLEAN :
        LET o == FormsRingFunctor(FreshIds(LiveIds(Slots \ {s}))[1], t, g, red_hom)
            r == Canon([reg EXCEPT ![s] = o])
        IN  /\ reg' = r
            /\ last' = Record("FormsRingFunctor", NoneVal, NoneVal, NoArg, "", r[s])
            /\ UNCHANGED <<cache, stack>>

\* s = FormsSubSpaceFunctor(src, basis); s stays as it is when that raises
NewSubSpaceIn(S) ==
    \E s \in S, src \in S, basis \in Bases :
        /\ IsFunctor(reg[src])
        /\ LET live == LiveIds(Slots \ {s}) \cup IdsOf(reg[src])
               o == FormsSubSpaceFunctor(FreshIds(live)[1], reg[src], basis)
               r == Canon([reg EXCEPT ![s] = o])
           IN  IF o.kind = "Exception"
               THEN /\ reg' = reg
                    /\ last' = Record("FormsSubSpaceFunctor", reg[src], NoneVal, NoArg, "", o)
               ELSE /\ reg' = r
                    /\ last' = Record("FormsSubSpaceFunctor", r[s].amb, NoneVal, NoArg, "", r[s])
        /\ UNCHANGED <<cache, stack>>

\* i.merge(j)
DoMerge ==
    \E i \in Slots, j \in Slots :
        /\ IsFunctor(reg[i])
        /\ IsFunctor(reg[j])
        /\ last' = Record("merge", reg[i], reg[j], NoArg, "",
                          Merge(reg[i], reg[j], FreshIds(LiveIds(Slots))))
        /\ UNCHANGED <<reg, cache, stack>>

ConstructSpace == NewSpaceIn(Slots)

ConstructRing == NewRingIn(Slots)

ConstructSubSpace == NewSubSpaceIn(Slots)

Next == ConstructSpace \/ ConstructRing \/ ConstructSubSpace \/ DoMerge

Spec == Init /\ [][Next]_vars

\* the functor in slot 1 applied to a ring or to the BaseFacade of a ring
DoCall ==
    \E ring \in Rings, facade \in BOOLEAN :
        /\ IsFunctor(reg[1])
        /\ LET R == IF facade THEN BaseFacade(ring) ELSE PlainRing(ring)
           IN  last' = Record("call", reg[1], NoneVal, R, "",
                              Call(reg[1], R, FreshIds(LiveIds(Slots))))
        /\ UNCHANGED <<reg, cache, stack>>

CallConstructSpace == NewSpaceIn({1})

CallConstructRing == NewRingIn({1})

CallConstructSubSpace == NewSubSpaceIn({1})

NextCall == CallConstructSpace \/ CallConstructRing \/ CallConstructSubSpace \/ DoCall

SpecCall == Init /\ [][NextCall]_vars

\* get_base_ring(ring, var_name)
DoGetBaseRing ==
    \E ring \in Rings, var_name \in VarNames :
        /\ last' = Record("get_base_ring", NoneVal, NoneVal, PlainRing(ring), var_name,
                          PlainRing(get_base_ring(ring, var_name)))
        /\ UNCHANGED <<reg, cache, stack>>

NextRing == DoGetBaseRing

SpecRing == Init /\ [][NextRing]_vars

\* slot 1 = FormsSubSpaceFunctor(slot 1, basis), with the arguments on record;
\* slot 1 stays as it is when that raises
ConstructSubSpaceOver ==
    \E basis \in Bases :
        /\ IsFunctor(reg[1])
        /\ LET A == reg[1]
               o == FormsSubSpaceFunctor(FreshIds(LiveIds(Slots))[1], A, basis)
               rr == [reg EXCEPT ![1] = o]
           IN  IF o.kind = "Exception"
               THEN /\ reg' = reg
                    /\ last' = Record("FormsSubSpaceFunctor", A, NoneVal,
                                      BasisArg(basis), "", o)
               ELSE /\ reg' = Canon(rr)
                    /\ last' = Record("FormsSubSpaceFunctor", Renamed(rr, A), NoneVal,
                                      BasisArg(basis), "", Renamed(rr, o))
        /\ UNCHANGED <<cache, stack>>

NextConstruct == CallConstructSpace \/ CallConstructRing \/ ConstructSubSpaceOver

SpecConstruct == Init /\ [][NextConstruct]_vars

(***************************************************************************)
(* __call__ of FormsSpaceFunctor and FormsRingFunctor, one step at a time. *)
(* stack holds the activations of __call__, the outermost first; an        *)
(* activation is at "call" (its body not yet run) or at "wait" (inside     *)
(* merged_functor(R)).  A call runs to its end before the session goes on. *)
(***************************************************************************)
Frame(F, R, pc) == [F |-> F, R |-> R, pc |-> pc]

Top == stack[Len(stack)]

ApplyConstructSpace == stack = <<>> /\ NewSpaceIn({1})

ApplyConstructRing == stack = <<>> /\ NewRingIn({1})

\* F(R) is entered, F the functor in slot 1
ApplyStart ==
    \E ring \in Rings, facade \in BOOLEAN :
        /\ stack = <<>>
        /\ reg[1].kind \in {"Space", "Ring"}
        /\ LET R == IF facade THEN BaseFacade(ring) ELSE PlainRing(ring)
           IN  /\ stack' = <<Frame(reg[1], R, "call")>>
               /\ last' = Record("apply", reg[1], NoneVal, R, "", NoneVal)
        /\ UNCHANGED <<reg, cache>>

\* the branch isinstance(R, BaseFacade): the forms space or ring is returned
ApplyFacadeBranch ==
    /\ stack # <<>>
    /\ Top.pc = "call"
    /\ Top.R.kind = "BaseFacade"
    /\ LET self == Top.F
           R == get_base_ring(Top.R._ring, DefaultVarName)
       IN  last' = [last EXCEPT !.res =
                        IF self.kind = "Space"
                        THEN FormsSpace(self.at, self.group, R, self.k, self.ep)
                        ELSE FormsRing(self.at, self.group, R, self.red_hom)]
    /\ stack' = SubSeq(stack, 1, Len(stack) - 1)
    /\ UNCHANGED <<reg, cache>>

\* the other branch: merged_functor(R) is entered, or raises when
\* merged_functor is None
ApplyPlainBranch ==
    /\ stack # <<>>
    /\ Len(stack) < MaxFrames
    /\ Top.pc = "call"
    /\ Top.R.kind # "BaseFacade"
    /\ LET self == Top.F
           f == FreshIds(LiveIds(Slots) \cup UNION {IdsOf(stack[i].F) : i \in DOMAIN stack})
           R == BaseFacade(get_base_ring(Top.R.ring, DefaultVarName))
           merged_functor == Merge(self, ConstantFormsSpaceFunctor(f[1], self.group), Tail(f))
       IN  IF merged_functor = NoneVal
           THEN /\ stack' = <<>>
                /\ last' = [last EXCEPT !.res = ExceptionVal]
           ELSE /\ stack' = Append([stack EXCEPT ![Len(stack)].pc = "wait"],
                                   Frame(merged_functor, R, "call"))
                /\ last' = [last EXCEPT !.other = merged_functor]
    /\ UNCHANGED <<reg, cache>>

\* return merged_functor(R)
ApplyReturn ==
    /\ stack # <<>>
    /\ Top.pc = "wait"
    /\ last.res # NoneVal
    /\ stack' = SubSeq(stack, 1, Len(stack) - 1)
    /\ UNCHANGED <<reg, last, cache>>

NextApply ==
    \/ ApplyConstructSpace
    \/ ApplyConstructRing
    \/ ApplyStart
    \/ ApplyFacadeBranch
    \/ ApplyPlainBranch
    \/ ApplyReturn

\* a call that has begun goes on: each step of its body is taken
SpecApply ==
    /\ Init
    /\ [][NextApply]_vars
    /\ WF_vars(ApplyFacadeBranch)
    /\ WF_vars(ApplyPlainBranch)
    /\ WF_vars(ApplyReturn)

(***************************************************************************)
(* Three functors merged in the two possible orders.  The three operands   *)
(* are three objects, drawn from every functor the constructors build over *)
(* the input sets; None stands for "no common functor" and is absorbing.   *)
(***************************************************************************)
SpaceFunctors(id) ==
    {FormsSpaceFunctor(id, t, g, k, ep) :
        t \in TypeInputs, g \in Groups, k \in Weights, ep \in Multipliers}

RingFunctors(id) ==
    {FormsRingFunctor(id, t, g, red_hom) :
        t \in TypeInputs, g \in Groups, red_hom \in BOOLEAN}

SubSpaceFunctors(id, ambient_id) ==
    {FormsSubSpaceFunctor(id, A, basis) : A \in SpaceFunctors(ambient_id), basis \in Bases}

Functors(id, ambient_id) ==
    SpaceFunctors(id) \cup RingFunctors(id) \cup SubSpaceFunctors(id, ambient_id)

\* merge with None absorbing
MergeOrNone(self, other, f) ==
    IF self = NoneVal \/ other = NoneVal THEN NoneVal ELSE Merge(self, other, f)

BothOrders(left, right) == [kind |-> "BothOrders", left |-> left, right |-> right]

InitAssoc ==
    /\ reg = [s \in Slots |-> NoneVal]
    /\ \E F \in Functors(1, 2), G \in Functors(3, 4), H \in Functors(5, 6) :
          last = Record("operands", F, G, H, "", NoneVal)
    /\ cache = EmptyCache
    /\ stack = <<>>

\* (F.merge(G)).merge(H) and F.merge(G.merge(H))
DoMergeThree ==
    /\ last.op = "operands"
    /\ LET F == last.self
           G == last.other
           H == last.arg
       IN  last' = Record("merge3", F, G, H, "",
                          BothOrders(MergeOrNone(MergeOrNone(F, G, <<7, 8, 0, 0>>), H,
                                                 <<9, 10, 0, 0>>),
                                     MergeOrNone(F, MergeOrNone(G, H, <<7, 8, 0, 0>>),
                                                 <<9, 10, 0, 0>>)))
    /\ UNCHANGED <<reg, cache, stack>>

NextAssoc == DoMergeThree

SpecAssoc == InitAssoc /\ [][NextAssoc]_vars

(***************************************************************************)
(* BaseFacade is a UniqueRepresentation: the class keeps its instances by  *)
(* the argument of the constructor and hands out the kept instance when it *)
(* is called with an equal argument.                                       *)
(***************************************************************************)
FacadeRings == RingsUpTo(MaxDepth - 1)

\* the instance kept for the argument ring, None without one
CachedInstance(c, ring) == IF ring \in DOMAIN c THEN c[ring] ELSE NoneVal

\* a new instance, initialized by BaseFacade.__init__
FacadeObject(id, ring) == [id |-> id] @@ BaseFacade(ring)

\* BaseFacade(ring)
DoBaseFacade ==
    \E ring \in FacadeRings :
        LET hit == CachedInstance(cache, ring)
            miss == hit.kind = "None"
            obj == IF miss THEN FacadeObject(Cardinality(DOMAIN cache) + 1, ring) ELSE hit
        IN  /\ miss => Cardinality(DOMAIN cache) < MaxFacades
            /\ cache' = IF miss THEN (ring :> obj) @@ cache ELSE cache
            /\ last' = Record("BaseFacade", NoneVal, hit, PlainRing(ring), "", obj)
            /\ UNCHANGED <<reg, stack>>

NextFacade == DoBaseFacade

SpecFacade == Init /\ [][NextFacade]_vars

TypeOK ==
    /\ \A s \in Slots : reg[s].kind \in {"None", "Space", "Ring", "SubSpace"}
    /\ \A s \in Slots : reg[s].kind = "SubSpace" => reg[s].amb.kind = "Space"
    /\ \A s \in Slots, u \in Slots :
          (IsFunctor(reg[s]) /\ IsFunctor(reg[u]) /\ reg[s].id = reg[u].id) => reg[s] = reg[u]

(***************************************************************************)
(* Properties of merge, checked under Spec.                                *)
(***************************************************************************)
\* the group of a functor; a subspace functor has the group of its ambient
GroupOf(o) == IF o.kind = "SubSpace" THEN o.amb.group ELSE o.group

Merged == last.op = "merge"

BothOfKind(k1, k2) == last.self.kind = k1 /\ last.other.kind = k2

\* C1: merging two functors (of any of the three kinds) whose groups differ
\* returns None: neither a constructed functor nor an exception.
C1_GroupMismatchIsNone ==
    (Merged /\ GroupOf(last.self) # GroupOf(last.other)) => last.res = NoneVal

C1_Witness ==
    /\ Merged
    /\ BothOfKind("SubSpace", "Ring")
    /\ GroupOf(last.self) # GroupOf(last.other)
    /\ last.res = NoneVal

\* C2: F.merge(G) returns the object F itself whenever G is structurally
\* equal to F, for each of the three kinds; in particular F.merge(F) is F.
C2_MergeEqualReturnsSelf ==
    (Merged /\ Eq(last.self, last.other)) => last.res = last.self

C2_Witness ==
    /\ Merged
    /\ BothOfKind("SubSpace", "SubSpace")
    /\ Eq(last.self, last.other)
    /\ last.self.id # last.other.id
    /\ last.self.amb.id # last.other.amb.id
    /\ last.res = last.self

\* C3: two FormsSpaceFunctors with the same group, weight and multiplier
\* merge to a FormsSpaceFunctor equal to FormsSpaceFunctor(T1+T2, n, k, ep).
C3_SameWeightMerge ==
    (/\ Merged
     /\ BothOfKind("Space", "Space")
     /\ last.self.group = last.other.group
     /\ last.self.k = last.other.k
     /\ last.self.ep = last.other.ep)
    => SpaceEq(FormsSpaceFunctor(0, ATJoin(last.self.at, last.other.at),
                                 last.self.group, last.self.k, last.self.ep),
               last.res)

C3_Witness ==
    /\ Merged
    /\ BothOfKind("Space", "Space")
    /\ last.self.group = last.other.group
    /\ last.self.k = last.other.k
    /\ last.self.ep = last.other.ep
    /\ last.self.at # last.other.at
    /\ last.res.kind = "Space"
    /\ last.res.at \notin {last.self.at, last.other.at}
    /\ last.res.id \notin {last.self.id, last.other.id}

\* C4: two FormsSpaceFunctors with the same group whose weights differ or
\* whose multipliers differ merge to a FormsRingFunctor equal to
\* FormsRingFunctor(T1+T2, n, red_hom=True).
C4_DifferentWeightMerge ==
    (/\ Merged
     /\ BothOfKind("Space", "Space")
     /\ last.self.group = last.other.group
     /\ <<last.self.k, last.self.ep>> # <<last.other.k, last.other.ep>>)
    => RingEq(FormsRingFunctor(0, ATJoin(last.self.at, last.other.at),
                               last.self.group, TRUE),
              last.res)

C4_Witness ==
    /\ Merged
    /\ BothOfKind("Space", "Space")
    /\ last.self.group = last.other.group
    /\ last.self.k = last.other.k
    /\ last.self.ep # last.other.ep
    /\ last.self.at # last.other.at
    /\ last.res.kind = "Ring"
    /\ last.res.red_hom

\* C5: two FormsRingFunctors with the same group merge to a functor equal to
\* FormsRingFunctor(T1+T2, n, r1 and r2).
C5_RingMergeAnd ==
    (/\ Merged
     /\ BothOfKind("Ring", "Ring")
     /\ last.self.group = last.other.group)
    => RingEq(FormsRingFunctor(0, ATJoin(last.self.at, last.other.at),
                               last.self.group,
                               last.self.red_hom /\ last.other.red_hom),
              last.res)

C5_Witness ==
    /\ Merged
    /\ BothOfKind("Ring", "Ring")
    /\ last.self.group = last.other.group
    /\ last.self.red_hom
    /\ ~last.other.red_hom
    /\ last.self.at # last.other.at
    /\ last.res.kind = "Ring"
    /\ ~last.res.red_hom

\* C6: a FormsSpaceFunctor S and a FormsRingFunctor Q with the same group
\* merge, in either order, to a FormsRingFunctor over that group with the
\* join of the two analytic types and the red_hom of Q, whatever the weight
\* and the multiplier of S.
C6_SpaceRingMerge ==
    /\ (Merged /\ BothOfKind("Space", "Ring") /\ last.self.group = last.other.group)
       => RingEq(FormsRingFunctor(0, ATJoin(last.self.at, last.other.at),
                                  last.self.group, last.other.red_hom),
                 last.res)
    /\ (Merged /\ BothOfKind("Ring", "Space") /\ last.self.group = last.other.group)
       => RingEq(FormsRingFunctor(0, ATJoin(last.self.at, last.other.at),
                                  last.self.group, last.self.red_hom),
                 last.res)

C6_Witness ==
    /\ Merged
    /\ BothOfKind("Ring", "Space")
    /\ last.self.group = last.other.group
    /\ ~last.self.red_hom
    /\ last.other.k # 0
    /\ last.self.at # last.other.at
    /\ last.res.kind = "Ring"
    /\ ~last.res.red_hom

SameWeight == <<last.self.amb.k, last.self.amb.ep>> = <<last.other.amb.k, last.other.amb.ep>>

SubSpacesSameBasisSameGroup ==
    /\ Merged
    /\ BothOfKind("SubSpace", "SubSpace")
    /\ last.self.basis = last.other.basis
    /\ last.self.amb.group = last.other.amb.group

\* C7 as stated: two FormsSubSpaceFunctors with equal bases whose ambient
\* functors have the same group (any weights and multipliers) merge to a
\* FormsSubSpaceFunctor with that basis over the merge of the ambients.
C7_AlwaysSubSpace ==
    SubSpacesSameBasisSameGroup
    => /\ last.res.kind = "SubSpace"
       /\ last.res.basis = last.self.basis
       /\ Eq(SpaceMerge(last.self.amb, last.other.amb, <<0, 0, 0, 0>>), last.res.amb)

\* C7 amended: with equal bases and the same group, the merge is a
\* FormsSubSpaceFunctor with that basis over FormsSpaceFunctor(T1+T2, n, k, ep)
\* when the ambients also share weight and multiplier; when they do not, it
\* is the merged ambient FormsRingFunctor(T1+T2, n, red_hom=True), without
\* basis.
C7_SubSpaceMerge ==
    SubSpacesSameBasisSameGroup
    => IF SameWeight
       THEN /\ last.res.kind = "SubSpace"
            /\ last.res.basis = last.self.basis
            /\ SpaceEq(FormsSpaceFunctor(0, ATJoin(last.self.amb.at, last.other.amb.at),
                                         last.self.amb.group, last.self.amb.k,
                                         last.self.amb.ep),
                       last.res.amb)
       ELSE RingEq(FormsRingFunctor(0, ATJoin(last.self.amb.at, last.other.amb.at),
                                    last.self.amb.group, TRUE),
                   last.res)

C7_Witness ==
    /\ SubSpacesSameBasisSameGroup
    /\ SameWeight
    /\ last.self.amb.at # last.other.amb.at
    /\ last.self.basis # <<>>
    /\ last.res.kind = "SubSpace"
    /\ last.res.basis = last.self.basis
    /\ last.res.id \notin {last.self.id, last.other.id}

(***************************************************************************)
(* Properties of the application to a ring, checked under SpecCall.        *)
(***************************************************************************)
Called == last.op = "call"

NoIds == <<0, 0, 0, 0>>

\* get_base_ring as the non-facade path applies it: in __call__, in
\* BaseFacade.__init__ and in the facade branch
ThriceNormalized(ring) ==
    get_base_ring(get_base_ring(get_base_ring(ring, DefaultVarName), DefaultVarName),
                  DefaultVarName)

ConstantWeight(o) == <<o.k, o.ep>> = <<0, 1>>

\* C8 as stated: a FormsSubSpaceFunctor applied to a ring that is not a
\* BaseFacade gives the result of its ambient functor on that ring and
\* builds no subspace, for every weight and multiplier of the ambient.
C8_AlwaysAmbientResult ==
    (Called /\ last.self.kind = "SubSpace" /\ last.arg.kind = "PlainRing")
    => /\ last.res = SpaceCall(last.self.amb, last.arg, NoIds)
       /\ last.res.kind # "SubSpaceForms"

\* C8 amended: on a ring that is not a BaseFacade, a FormsSubSpaceFunctor
\* whose ambient has (k, ep) # (0, 1) gives the forms ring its ambient
\* functor gives; with (k, ep) = (0, 1) the ambient functor gives a forms
\* space and the result is the subspace of that space with the basis.
C8_SubSpaceOnPlainRing ==
    (Called /\ last.self.kind = "SubSpace" /\ last.arg.kind = "PlainRing")
    => LET A == SpaceCall(last.self.amb, last.arg, NoIds)
       IN  IF ConstantWeight(last.self.amb)
           THEN /\ A.kind = "FormsSpace"
                /\ last.res = SubSpaceForms(A, last.self.basis)
           ELSE /\ A.kind = "FormsRing"
                /\ last.res = A

C8_Witness ==
    /\ Called
    /\ last.self.kind = "SubSpace"
    /\ last.arg.kind = "PlainRing"
    /\ ~ConstantWeight(last.self.amb)
    /\ last.self.basis # <<>>
    /\ last.res.kind = "FormsRing"

C10_Idempotent ==
    last.op = "get_base_ring"
    => get_base_ring(last.res.ring, last.var) = last.res.ring

(***************************************************************************)
(* The application to a BaseFacade, under SpecCall.                        *)
(***************************************************************************)
\* C11: a FormsSpaceFunctor applied to BaseFacade(S) gives the forms space
\* with its analytic type, group, k and ep over get_base_ring(S), one
\* normalization of S and no further unwrapping; a FormsRingFunctor applied
\* to BaseFacade(S) gives the forms ring over get_base_ring(S).
C11_FacadeBaseRing ==
    /\ (Called /\ last.self.kind = "Space" /\ last.arg.kind = "BaseFacade")
       => last.res = FormsSpace(last.self.at, last.self.group,
                                get_base_ring(last.arg.arg, DefaultVarName),
                                last.self.k, last.self.ep)
    /\ (Called /\ last.self.kind = "Ring" /\ last.arg.kind = "BaseFacade")
       => last.res = FormsRing(last.self.at, last.self.group,
                               get_base_ring(last.arg.arg, DefaultVarName),
                               last.self.red_hom)

(***************************************************************************)
(* The identity of BaseFacade objects, under SpecFacade.                   *)
(***************************************************************************)
SameNormalized(r1, r2) ==
    get_base_ring(r1, DefaultVarName) = get_base_ring(r2, DefaultVarName)

SubSpaceConstructed == last.op = "FormsSubSpaceFunctor" /\ last.arg.kind = "Basis"

\* C13: FormsSubSpaceFunctor(A, basis) raises for every A that is not a
\* FormsSpaceFunctor (a FormsRingFunctor or a FormsSubSpaceFunctor),
\* whatever the basis, and no functor with such an ambient exists; with A a
\* FormsSpaceFunctor it returns a functor holding the object A and the basis.
C13_SubSpaceConstruction ==
    /\ SubSpaceConstructed
       => IF last.self.kind # "Space"
          THEN last.res = ExceptionVal
          ELSE /\ last.res.kind = "SubSpace"
               /\ last.res.amb = last.self
               /\ last.res.basis = last.arg.basis
    /\ \A s \in Slots : reg[s].kind = "SubSpace" => reg[s].amb.kind = "Space"

C13_Witness ==
    /\ SubSpaceConstructed
    /\ last.self.kind = "SubSpace"
    /\ last.arg.basis # <<>>
    /\ last.res = ExceptionVal
    /\ reg[1] = last.self

(***************************************************************************)
(* Algebraic properties of merge.                                          *)
(***************************************************************************)
\* both None, or two functors that __eq__ finds equal
StructurallyEqual(a, b) ==
    \/ a = NoneVal /\ b = NoneVal
    \/ IsFunctor(a) /\ IsFunctor(b) /\ a.kind = b.kind /\ Eq(a, b) /\ Eq(b, a)

MergedThree == last.op = "merge3"

\* C14: for all functors F, G, H of the three kinds, with None absorbing,
\* (F.merge(G)).merge(H) is structurally equal to F.merge(G.merge(H)).
C14_MergeAssociative ==
    MergedThree => StructurallyEqual(last.res.left, last.res.right)

C14_Witness ==
    /\ MergedThree
    /\ last.self.kind = "SubSpace"
    /\ last.other.kind = "Space"
    /\ last.arg.kind = "Ring"
    /\ ~last.arg.red_hom
    /\ last.res.left.kind = "Ring"
    /\ ~last.res.left.red_hom
    /\ StructurallyEqual(last.res.left, last.res.right)
    /\ last.res.left.at # last.arg.at

\* an object without its identity: its class and its fields
Anonymous(o) ==
    CASE o.kind = "SubSpace" -> [o EXCEPT !.id = 0, !.amb = [o.amb EXCEPT !.id = 0]]
      [] o.kind \in {"Space", "Ring"} -> [o EXCEPT !.id = 0]
      [] OTHER -> o

\* C15: for all functors F and G of the three kinds, F.merge(G) and
\* G.merge(F) are both None, or functors of the same kind that __eq__ finds
\* equal and that have the same analytic type, group, k and ep or red_hom,
\* and the same basis over such ambients for subspace functors.
C15_MergeCommutative ==
    Merged =>
        LET swapped == Merge(last.other, last.self, NoIds)
        IN  /\ StructurallyEqual(last.res, swapped)
            /\ Anonymous(last.res) = Anonymous(swapped)

C15_Witness ==
    /\ Merged
    /\ BothOfKind("SubSpace", "SubSpace")
    /\ last.self.basis = last.other.basis
    /\ last.self.basis # <<>>
    /\ last.self.amb.at # last.other.amb.at
    /\ last.res.kind = "SubSpace"
    /\ last.res.id \notin {last.self.id, last.other.id}
    /\ last.res.amb.at # last.self.amb.at
    /\ last.res.amb.at # last.other.amb.at
    /\ Anonymous(last.res) = Anonymous(Merge(last.other, last.self, NoIds))

(***************************************************************************)
(* Termination of __call__, under SpecApply.                               *)
(***************************************************************************)
Applying == last.op = "apply" /\ stack # <<>>

Applied == last.op = "apply" /\ stack = <<>>

\* the activations of a call: at most the outer one on a ring that is no
\* BaseFacade and, under it, one of the merged functor on a BaseFacade
OneLevelOfRecursion ==
    /\ Len(stack) <= 2
    /\ Len(stack) >= 1 => stack[1].F = last.self /\ stack[1].R = last.arg
    /\ Len(stack) = 2
       => /\ stack[1].pc = "wait"
          /\ stack[1].R.kind = "PlainRing"
          /\ stack[2].pc = "call"
          /\ stack[2].F.kind \in {"Space", "Ring"}
          /\ stack[2].F = last.other
          /\ stack[2].F.group = stack[1].F.group
          /\ stack[2].R = BaseFacade(get_base_ring(stack[1].R.ring, DefaultVarName))
    /\ Applied
       => /\ last.res.kind \in {"FormsSpace", "FormsRing"}
          /\ last.res = Call(last.self, last.arg, NoIds)
          /\ (last.arg.kind = "PlainRing") <=> (last.other.kind \in {"Space", "Ring"})

\* C16: F(R), F a FormsSpaceFunctor or FormsRingFunctor, always ends, with a
\* forms space or a forms ring; for R not a BaseFacade the merge of F with
\* ConstantFormsSpaceFunctor(F's group) is a functor, never None, it is
\* applied to a BaseFacade, and the call nests exactly once.
C16_ApplyTerminates ==
    /\ []OneLevelOfRecursion
    /\ Applying ~> (Applied /\ last.res.kind \in {"FormsSpace", "FormsRing"})

C16_Witness ==
    /\ Applied
    /\ last.self.kind = "Space"
    /\ last.arg.kind = "PlainRing"
    /\ last.arg.ring # get_base_ring(last.arg.ring, DefaultVarName)
    /\ last.other.kind = "Ring"
    /\ last.other.id # last.self.id
    /\ last.res.kind = "FormsRing"

====
